---- MODULE Spec2Model ----
(***************************************************************************)
(* Model of folly::wangle::Pipeline<R, W> (wangle/channel/Pipeline.h and   *)
(* Pipeline-inl.h): assembly (addFront/addBack), finalize, setOwner, the   *)
(* inbound/outbound entry points and destruction.                          *)
(*                                                                         *)
(* A context is identified by the order of its allocation (1, 2, ...);     *)
(* Null (0) is the null pointer.  A handler is identified by its address;  *)
(* its type fixes its direction.  The per-context behaviour declared in    *)
(* HandlerContext.h (the neighbour slots and their null initial value,     *)
(* and the fire* forwarding along them) follows its documented contract.   *)
(* attachPipeline and detachPipeline are counted as the calls the pipeline *)
(* makes on a context.                                                     *)
(*                                                                         *)
(* The pipeline is used from one thread; a destroyed pipeline is not used  *)
(* again.  The write flags and read buffer settings are plain accessors    *)
(* that no other member reads, and the protected addContextFront has no    *)
(* caller in these sources; they are left out.                             *)
(*                                                                         *)
(* Spec is the pipeline under every order of calls.  SpecFlow records the  *)
(* read, write and close calls of a pipeline that is assembled and         *)
(* finalized first.  SpecLife follows the futures handed out by write and  *)
(* close and PipelineBase::deletePipeline; the manager behind it is not in *)
(* these sources and defers the delete as its contract says.               *)
(***************************************************************************)
EXTENDS Integers, Sequences, FiniteSets, TLC

\* ---- bounds ----
MaxCtxs == 3
NumHandlers == 3
MaxFinalize == 2
NumMsgs == 2
MaxEvents == 2
MaxFutures == 2

Null == 0
CtxIds == 1..MaxCtxs
Handlers == 1..NumHandlers
Msgs == 1..NumMsgs

\* HandlerDir of a handler's type; the handler types cycle IN, OUT, BOTH.
HandlerDirOf(h) ==
  IF h % 3 = 1 THEN "IN" ELSE IF h % 3 = 2 THEN "OUT" ELSE "BOTH"

VARIABLES
  isStatic,     \* isStatic_
  owner,        \* owner_ : a context of ctxs, or Null
  ctxs,         \* ctxs_
  inCtxs,       \* inCtxs_
  outCtxs,      \* outCtxs_
  front,        \* front_
  back,         \* back_
  handlerOf,    \* context -> the handler it wraps (Null: not allocated)
  nextIn,       \* context -> its nextIn neighbour
  nextOut,      \* context -> its nextOut neighbour
  destroyed,    \* ~Pipeline has run
  attachCalls,  \* context -> number of attachPipeline calls it received
  lastAttach,   \* the attachPipeline calls of the latest finalize, in order
  detachLog,    \* contexts that received detachPipeline, in order
  finalizeCount,      \* number of finalize calls so far
  addedSinceFinalize, \* contexts added after the latest finalize
  ownerHandler, \* handler of the latest setOwner that returned true
  lastCall,     \* the latest call on the pipeline and its outcome
  inEvents,     \* the read calls so far: message and contexts it reached
  outEvents,    \* the write/close calls so far: operation and contexts reached
  manager,      \* manager_ is set
  outstanding,  \* futures returned by write/close and not yet resolved
  deleteRequested \* the manager was asked to delete while futures were open

pipelineVars ==
  <<isStatic, owner, ctxs, inCtxs, outCtxs, front, back, handlerOf,
    nextIn, nextOut, destroyed>>
historyVars ==
  <<attachCalls, lastAttach, detachLog, finalizeCount, addedSinceFinalize,
    ownerHandler>>
flowVars == <<inEvents, outEvents>>
lifeVars == <<manager, outstanding, deleteRequested>>
auxVars == <<flowVars, lifeVars>>
vars == <<pipelineVars, historyVars, lastCall, auxVars>>

\* ---- helpers ----
Reverse(s) == [i \in 1..Len(s) |-> s[Len(s) + 1 - i]]
Last(s) == s[Len(s)]
Range(s) == {s[i] : i \in 1..Len(s)}
FirstOrNull(s) == IF s = <<>> THEN Null ELSE Head(s)
LastOrNull(s) == IF s = <<>> THEN Null ELSE Last(s)
DirOf(c) == HandlerDirOf(handlerOf[c])
IsIn(d) == d = "BOTH" \/ d = "IN"
IsOut(d) == d = "BOTH" \/ d = "OUT"

Call(op, h, m, res, dl) ==
  [op |-> op, handler |-> h, msg |-> m, result |-> res, delivered |-> dl]

\* ---- Pipeline::addHelper ----
\* vector::insert(front ? begin() : end(), x)
InsertEnd(s, x, atFront) == IF atFront THEN <<x>> \o s ELSE Append(s, x)

\* Variant: the inbound list is always appended to, whatever the end asked for.
AddHelperInAlwaysBack(ins, c, d, atFront) ==
  IF IsIn(d) THEN Append(ins, c) ELSE ins

AddHelperIn(ins, c, d, atFront) ==
  IF IsIn(d) THEN InsertEnd(ins, c, atFront) ELSE ins

AddHelperOut(outs, c, d, atFront) ==
  IF IsOut(d) THEN InsertEnd(outs, c, atFront) ELSE outs

\* Variant: insertion also re-points front_ and back_ at the ends of the lists.
AddHelperWiring(h, atFront, opName) ==
  /\ ~destroyed
  /\ Len(ctxs) < MaxCtxs
  /\ LET c == Len(ctxs) + 1 IN
       /\ handlerOf' = [handlerOf EXCEPT ![c] = h]
       /\ ctxs' = InsertEnd(ctxs, c, atFront)
       /\ inCtxs' = AddHelperIn(inCtxs, c, HandlerDirOf(h), atFront)
       /\ outCtxs' = AddHelperOut(outCtxs, c, HandlerDirOf(h), atFront)
       /\ addedSinceFinalize' = addedSinceFinalize \cup {c}
  /\ front' = FirstOrNull(inCtxs')
  /\ back' = LastOrNull(outCtxs')
  /\ lastCall' = Call(opName, h, Null, "ok", <<>>)
  /\ UNCHANGED <<isStatic, owner, nextIn, nextOut, destroyed,
                 attachCalls, lastAttach, detachLog, finalizeCount,
                 ownerHandler>>

\* make_shared<Context>(this, handler) followed by addHelper(ctx, atFront)
AddHelper(h, atFront, opName) ==
  /\ ~destroyed
  /\ Len(ctxs) < MaxCtxs
  /\ LET c == Len(ctxs) + 1 IN
       /\ handlerOf' = [handlerOf EXCEPT ![c] = h]
       /\ ctxs' = InsertEnd(ctxs, c, atFront)
       /\ inCtxs' = AddHelperIn(inCtxs, c, HandlerDirOf(h), atFront)
       /\ outCtxs' = AddHelperOut(outCtxs, c, HandlerDirOf(h), atFront)
       /\ addedSinceFinalize' = addedSinceFinalize \cup {c}
  /\ lastCall' = Call(opName, h, Null, "ok", <<>>)
  /\ UNCHANGED <<isStatic, owner, front, back, nextIn, nextOut, destroyed,
                 attachCalls, lastAttach, detachLog, finalizeCount,
                 ownerHandler>>

AddBack(h) == AddHelper(h, FALSE, "addBack") /\ UNCHANGED auxVars
AddFront(h) == AddHelper(h, TRUE, "addFront") /\ UNCHANGED auxVars

\* ---- Pipeline::finalize ----
\* Variant: front_ is only set while it is null, and cleared otherwise.
FinalizeFrontOnce(ins, f) == IF ins # <<>> /\ f = Null THEN Head(ins) ELSE Null

\* Variant: front_ is taken from the wrong end of inCtxs_.
FinalizeFrontFromLast(ins, f) == IF ins # <<>> THEN Last(ins) ELSE f

FinalizeFront(ins, f) == IF ins # <<>> THEN Head(ins) ELSE f

\* Variant: the wiring loop stops one element early.
FinalizeNextInShort(ins, nIn) ==
  [c \in CtxIds |->
     IF \E i \in 1..(Len(ins) - 2) : ins[i] = c
       THEN ins[(CHOOSE i \in 1..(Len(ins) - 2) : ins[i] = c) + 1]
       ELSE nIn[c]]

\* for (i = 0; i < inCtxs_.size() - 1; i++) inCtxs_[i]->setNextIn(inCtxs_[i+1])
FinalizeNextIn(ins, nIn) ==
  [c \in CtxIds |->
     IF \E i \in 1..(Len(ins) - 1) : ins[i] = c
       THEN ins[(CHOOSE i \in 1..(Len(ins) - 1) : ins[i] = c) + 1]
       ELSE nIn[c]]

\* Variant: back_ is taken from the wrong end of outCtxs_.
FinalizeBackFromHead(outs, b) == IF outs # <<>> THEN Head(outs) ELSE b

FinalizeBack(outs, b) == IF outs # <<>> THEN Last(outs) ELSE b

\* Variant: the outbound neighbours are wired towards the back.
FinalizeNextOutForward(outs, nOut) ==
  [c \in CtxIds |->
     IF \E i \in 1..(Len(outs) - 1) : outs[i] = c
       THEN outs[(CHOOSE i \in 1..(Len(outs) - 1) : outs[i] = c) + 1]
       ELSE nOut[c]]

\* for (i = outCtxs_.size() - 1; i > 0; i--) outCtxs_[i]->setNextOut(outCtxs_[i-1])
FinalizeNextOut(outs, nOut) ==
  [c \in CtxIds |->
     IF \E i \in 2..Len(outs) : outs[i] = c
       THEN outs[(CHOOSE i \in 2..Len(outs) : outs[i] = c) - 1]
       ELSE nOut[c]]

\* Variant: the attach loop runs forward.
AttachOrderForward(cs) == cs

\* for (it = ctxs_.rbegin(); it != ctxs_.rend(); it++) (*it)->attachPipeline()
AttachOrder(cs) == Reverse(cs)

\* What a context's attachPipeline call can observe of the pipeline.
AttachCall(c, f, b, nIn, nOut) ==
  [ctx |-> c, front |-> f, back |-> b, nextIn |-> nIn, nextOut |-> nOut]

\* The attachPipeline calls of one finalize: they follow the wiring.
FinalizeAttach(cs, f, b, nIn, nOut, f2, b2, nIn2, nOut2) ==
  [i \in 1..Len(cs) |-> AttachCall(AttachOrder(cs)[i], f2, b2, nIn2, nOut2)]

Finalize ==
  /\ ~destroyed
  /\ finalizeCount < MaxFinalize
  /\ front' = FinalizeFront(inCtxs, front)
  /\ nextIn' = FinalizeNextIn(inCtxs, nextIn)
  /\ back' = FinalizeBack(outCtxs, back)
  /\ nextOut' = FinalizeNextOut(outCtxs, nextOut)
  /\ lastAttach' = FinalizeAttach(ctxs, front, back, nextIn, nextOut,
                                  front', back', nextIn', nextOut')
  /\ attachCalls' =
       [c \in CtxIds |->
          attachCalls[c] +
            Cardinality({i \in 1..Len(lastAttach') : lastAttach'[i].ctx = c})]
  /\ finalizeCount' = finalizeCount + 1
  /\ addedSinceFinalize' = {}
  /\ lastCall' = Call("finalize", Null, Null, "ok", <<>>)
  /\ UNCHANGED <<isStatic, owner, ctxs, inCtxs, outCtxs, handlerOf,
                 destroyed, detachLog, ownerHandler, auxVars>>

\* ---- Pipeline::setOwner ----
\* ctxImpl && ctxImpl->getHandler() == handler
SetOwnerMatches(c, h) == handlerOf[c] = h

\* Variant: the loop keeps going and the last match wins.
SetOwnerFindLast(cs, h) ==
  IF \E i \in 1..Len(cs) : SetOwnerMatches(cs[i], h)
    THEN cs[CHOOSE i \in 1..Len(cs) :
              /\ SetOwnerMatches(cs[i], h)
              /\ \A j \in (i + 1)..Len(cs) : ~SetOwnerMatches(cs[j], h)]
    ELSE Null

\* the first context of ctxs_ that matches, Null when the loop falls through
SetOwnerFind(cs, h) ==
  IF \E i \in 1..Len(cs) : SetOwnerMatches(cs[i], h)
    THEN cs[CHOOSE i \in 1..Len(cs) :
              /\ SetOwnerMatches(cs[i], h)
              /\ \A j \in 1..(i - 1) : ~SetOwnerMatches(cs[j], h)]
    ELSE Null

SetOwner(h) ==
  /\ ~destroyed
  /\ LET found == SetOwnerFind(ctxs, h) IN
       /\ owner' = IF found # Null THEN found ELSE owner
       /\ ownerHandler' = IF found # Null THEN h ELSE ownerHandler
       /\ lastCall' = Call("setOwner", h, Null,
                           IF found # Null THEN "true" ELSE "false", <<>>)
  /\ UNCHANGED <<isStatic, ctxs, inCtxs, outCtxs, front, back, handlerOf,
                 nextIn, nextOut, destroyed, attachCalls, lastAttach,
                 detachLog, finalizeCount, addedSinceFinalize, auxVars>>

\* ---- forwarding through the contexts (fireRead, fireWrite, ...) ----
RECURSIVE Path(_, _, _)
\* the contexts reached from c by following the neighbour slots nxt
Path(c, nxt, fuel) ==
  IF c = Null \/ fuel = 0 THEN <<>> ELSE <<c>> \o Path(nxt[c], nxt, fuel - 1)

InPath(c) == Path(c, nextIn, MaxCtxs + 1)
OutPath(c) == Path(c, nextOut, MaxCtxs + 1)

\* An event entering at context c is handled there and by each following
\* context for as long as the handlers forward it.
Dispatched(path) == {SubSeq(path, 1, k) : k \in 1..Len(path)}

\* ---- inbound and outbound entry points ----
\* Variant: a missing inbound handler is tolerated silently.
InboundOrThrowSilent(op, m) ==
  /\ ~destroyed
  /\ IF front = Null
       THEN lastCall' = Call(op, Null, m, "ok", <<>>)
       ELSE \E dl \in Dispatched(InPath(front)) :
              lastCall' = Call(op, Null, m, "ok", dl)
  /\ UNCHANGED <<pipelineVars, historyVars>>

\* if (!front_) throw std::invalid_argument(...); front_->op(...)
InboundOrThrow(op, m) ==
  /\ ~destroyed
  /\ IF front = Null
       THEN lastCall' = Call(op, Null, m, "NoInboundHandler", <<>>)
       ELSE \E dl \in Dispatched(InPath(front)) :
              lastCall' = Call(op, Null, m, "ok", dl)
  /\ UNCHANGED <<pipelineVars, historyVars>>

\* Variant: the advisory calls throw like read does.
InboundIfAnyThrows(op) ==
  /\ ~destroyed
  /\ IF front = Null
       THEN lastCall' = Call(op, Null, Null, "NoInboundHandler", <<>>)
       ELSE \E dl \in Dispatched(InPath(front)) :
              lastCall' = Call(op, Null, Null, "ok", dl)
  /\ UNCHANGED <<pipelineVars, historyVars>>

\* if (front_) front_->op()
InboundIfAny(op) ==
  /\ ~destroyed
  /\ IF front = Null
       THEN lastCall' = Call(op, Null, Null, "ok", <<>>)
       ELSE \E dl \in Dispatched(InPath(front)) :
              lastCall' = Call(op, Null, Null, "ok", dl)
  /\ UNCHANGED <<pipelineVars, historyVars>>

\* Variant: the outbound entry points look at outCtxs_ instead of back_.
OutboundOrThrowByList(op, m) ==
  /\ ~destroyed
  /\ IF outCtxs = <<>>
       THEN lastCall' = Call(op, Null, m, "NoOutboundHandler", <<>>)
       ELSE \E dl \in Dispatched(OutPath(Last(outCtxs))) :
              lastCall' = Call(op, Null, m, "ok", dl)
  /\ UNCHANGED <<pipelineVars, historyVars>>

\* if (!back_) throw std::invalid_argument(...); return back_->op(...)
OutboundOrThrow(op, m) ==
  /\ ~destroyed
  /\ IF back = Null
       THEN lastCall' = Call(op, Null, m, "NoOutboundHandler", <<>>)
       ELSE \E dl \in Dispatched(OutPath(back)) :
              lastCall' = Call(op, Null, m, "ok", dl)
  /\ UNCHANGED <<pipelineVars, historyVars>>

Read(m) == InboundOrThrow("read", m) /\ UNCHANGED auxVars
ReadEOF == InboundOrThrow("readEOF", Null) /\ UNCHANGED auxVars
ReadException == InboundOrThrow("readException", Null) /\ UNCHANGED auxVars
TransportActive == InboundIfAny("transportActive") /\ UNCHANGED auxVars
TransportInactive == InboundIfAny("transportInactive") /\ UNCHANGED auxVars
Write(m) == OutboundOrThrow("write", m) /\ UNCHANGED auxVars
Close == OutboundOrThrow("close", Null) /\ UNCHANGED auxVars

InboundThrowingOps == {"read", "readEOF", "readException"}
TransportOps == {"transportActive", "transportInactive"}
OutboundOps == {"write", "close"}
DispatchOps == InboundThrowingOps \cup TransportOps \cup OutboundOps

\* ---- Pipeline::~Pipeline and Pipeline::detachHandlers ----
\* Variant: the owner is not skipped.
DetachHandlersAll(cs, own) == cs

\* for (auto& ctx : ctxs_) if (ctx != owner_) ctx->detachPipeline()
DetachHandlers(cs, own) ==
  LET NotOwner(c) == c # own IN SelectSeq(cs, NotOwner)

\* if (!isStatic_) detachHandlers()
DestructorDetach(static, cs, own) ==
  IF ~static THEN DetachHandlers(cs, own) ELSE <<>>

Destroy ==
  /\ ~destroyed
  /\ destroyed' = TRUE
  /\ detachLog' = DestructorDetach(isStatic, ctxs, owner)
  /\ lastCall' = Call("destroy", Null, Null, "ok", <<>>)
  /\ UNCHANGED <<isStatic, owner, ctxs, inCtxs, outCtxs, front, back,
                 handlerOf, nextIn, nextOut, attachCalls, lastAttach,
                 finalizeCount, addedSinceFinalize, ownerHandler, auxVars>>

Init ==
  /\ isStatic \in BOOLEAN
  /\ owner = Null
  /\ ctxs = <<>>
  /\ inCtxs = <<>>
  /\ outCtxs = <<>>
  /\ front = Null
  /\ back = Null
  /\ handlerOf = [c \in CtxIds |-> Null]
  /\ nextIn = [c \in CtxIds |-> Null]
  /\ nextOut = [c \in CtxIds |-> Null]
  /\ destroyed = FALSE
  /\ attachCalls = [c \in CtxIds |-> 0]
  /\ lastAttach = <<>>
  /\ detachLog = <<>>
  /\ finalizeCount = 0
  /\ addedSinceFinalize = {}
  /\ ownerHandler = Null
  /\ lastCall = Call("construct", Null, Null, "ok", <<>>)
  /\ inEvents = <<>>
  /\ outEvents = <<>>
  /\ manager = FALSE
  /\ outstanding = 0
  /\ deleteRequested = FALSE

Next ==
  \/ \E h \in Handlers : AddBack(h)
  \/ \E h \in Handlers : AddFront(h)
  \/ Finalize
  \/ \E h \in Handlers : SetOwner(h)
  \/ \E m \in Msgs : Read(m)
  \/ ReadEOF
  \/ ReadException
  \/ TransportActive
  \/ TransportInactive
  \/ \E m \in Msgs : Write(m)
  \/ Close
  \/ Destroy

Spec == Init /\ [][Next]_vars

\* ---- message flow: the calls of an assembled pipeline, recorded ----
\* Assembly and finalize come first; every read, write and close call is
\* recorded with the contexts it reached.
NoEvents == inEvents = <<>> /\ outEvents = <<>>
EventsLeft == Len(inEvents) + Len(outEvents) < MaxEvents
Event(op, m, dl) == [op |-> op, msg |-> m, delivered |-> dl]

FlowAddBack(h) == NoEvents /\ AddBack(h)
FlowAddFront(h) == NoEvents /\ AddFront(h)
FlowFinalize == NoEvents /\ Finalize

FlowRead(m) ==
  /\ EventsLeft
  /\ InboundOrThrow("read", m)
  /\ inEvents' = Append(inEvents, Event("read", m, lastCall'.delivered))
  /\ UNCHANGED <<outEvents, lifeVars>>

FlowWrite(m) ==
  /\ EventsLeft
  /\ OutboundOrThrow("write", m)
  /\ outEvents' = Append(outEvents, Event("write", m, lastCall'.delivered))
  /\ UNCHANGED <<inEvents, lifeVars>>

FlowClose ==
  /\ EventsLeft
  /\ OutboundOrThrow("close", Null)
  /\ outEvents' = Append(outEvents, Event("close", Null, lastCall'.delivered))
  /\ UNCHANGED <<inEvents, lifeVars>>

FlowNext ==
  \/ \E h \in Handlers : FlowAddBack(h)
  \/ \E h \in Handlers : FlowAddFront(h)
  \/ FlowFinalize
  \/ \E m \in Msgs : FlowRead(m)
  \/ \E m \in Msgs : FlowWrite(m)
  \/ FlowClose

SpecFlow == Init /\ [][FlowNext]_vars

\* ---- PipelineBase::setPipelineManager / deletePipeline ----
SetPipelineManager ==
  /\ ~destroyed
  /\ manager' = TRUE
  /\ lastCall' = Call("setPipelineManager", Null, Null, "ok", <<>>)
  /\ UNCHANGED <<pipelineVars, historyVars, flowVars, outstanding,
                 deleteRequested>>

\* write/close hand back the future of the back handler, which that handler
\* resolves at once or later.
FutureOf(res) == IF res = "ok" THEN {0, 1} ELSE {0}

LifeOutbound(op, m) ==
  /\ outstanding < MaxFutures
  /\ OutboundOrThrow(op, m)
  /\ \E pending \in FutureOf(lastCall'.result) :
       outstanding' = outstanding + pending
  /\ UNCHANGED <<flowVars, manager, deleteRequested>>

LifeWrite(m) == LifeOutbound("write", m)
LifeClose == LifeOutbound("close", Null)

\* Variant: without a manager the pipeline deletes itself.
DeletePipelineOrSelf(mgr) == IF mgr THEN "manager" ELSE "self"

\* if (manager_) manager_->deletePipeline(this)
DeletePipelineTarget(mgr) == IF mgr THEN "manager" ELSE "none"

\* The manager releases the pipeline once no future of write/close is open.
ManagerReleases(target, open) ==
  \/ target = "self"
  \/ target = "manager" /\ open = 0

\* ~Pipeline run by the release
Release ==
  /\ destroyed' = TRUE
  /\ detachLog' = DestructorDetach(isStatic, ctxs, owner)

DeletePipeline ==
  /\ ~destroyed
  /\ ~deleteRequested
  /\ LET target == DeletePipelineTarget(manager) IN
       IF ManagerReleases(target, outstanding)
         THEN Release /\ UNCHANGED deleteRequested
         ELSE /\ deleteRequested' = (target = "manager")
              /\ UNCHANGED <<destroyed, detachLog>>
  /\ lastCall' = Call("deletePipeline", Null, Null, "ok", <<>>)
  /\ UNCHANGED <<isStatic, owner, ctxs, inCtxs, outCtxs, front, back,
                 handlerOf, nextIn, nextOut, attachCalls, lastAttach,
                 finalizeCount, addedSinceFinalize, ownerHandler, flowVars,
                 manager, outstanding>>

\* A handler completes, or the caller cancels, a future of write/close.
ResolveFuture ==
  /\ ~destroyed
  /\ outstanding > 0
  /\ outstanding' = outstanding - 1
  /\ IF deleteRequested /\ ManagerReleases("manager", outstanding')
       THEN Release
       ELSE UNCHANGED <<destroyed, detachLog>>
  /\ lastCall' = Call("resolveFuture", Null, Null, "ok", <<>>)
  /\ UNCHANGED <<isStatic, owner, ctxs, inCtxs, outCtxs, front, back,
                 handlerOf, nextIn, nextOut, attachCalls, lastAttach,
                 finalizeCount, addedSinceFinalize, ownerHandler, flowVars,
                 manager, deleteRequested>>

LifeNext ==
  \/ \E h \in Handlers : AddBack(h)
  \/ \E h \in Handlers : AddFront(h)
  \/ Finalize
  \/ SetPipelineManager
  \/ \E m \in Msgs : LifeWrite(m)
  \/ LifeClose
  \/ DeletePipeline
  \/ ResolveFuture

SpecLife == Init /\ [][LifeNext]_vars

\* ======================= properties =======================

Count(s, x) == Cardinality({i \in 1..Len(s) : s[i] = x})
PosIn(s, x) == CHOOSE i \in 1..Len(s) : s[i] = x

\* C1: after any sequence of addFront/addBack calls, inCtxs is exactly the
\* subsequence of ctxs whose direction is IN or BOTH, outCtxs exactly the one
\* whose direction is OUT or BOTH, both in the order of ctxs, and no context
\* occurs twice in ctxs.
C1_DerivedSequences ==
  LET Inbound(c) == DirOf(c) \in {"IN", "BOTH"}
      Outbound(c) == DirOf(c) \in {"OUT", "BOTH"}
  IN /\ inCtxs = SelectSeq(ctxs, Inbound)
     /\ outCtxs = SelectSeq(ctxs, Outbound)
     /\ \A i, j \in 1..Len(ctxs) : i # j => ctxs[i] # ctxs[j]

\* A chain [IN, BOTH, OUT] whose front-most context was added last, by addFront.
C1_Witness ==
  /\ Len(ctxs) = 3
  /\ ctxs[1] = 3
  /\ <<DirOf(ctxs[1]), DirOf(ctxs[2]), DirOf(ctxs[3])>> = <<"IN", "BOTH", "OUT">>
  /\ Len(inCtxs) = 2
  /\ Len(outCtxs) = 2

\* C2: immediately after any finalize call (the first or a later one), every
\* inbound context but the last has the next inbound context as nextIn and the
\* last has none; every outbound context but the first has the previous
\* outbound context as nextOut and the first has none.
C2_NeighboursAfterFinalize ==
  lastCall.op = "finalize" =>
    /\ \A i \in 1..(Len(inCtxs) - 1) : nextIn[inCtxs[i]] = inCtxs[i + 1]
    /\ inCtxs # <<>> => nextIn[inCtxs[Len(inCtxs)]] = Null
    /\ \A i \in 2..Len(outCtxs) : nextOut[outCtxs[i]] = outCtxs[i - 1]
    /\ outCtxs # <<>> => nextOut[outCtxs[1]] = Null

\* A second finalize, over three inbound contexts of which at least one was
\* added after the first finalize, and at least two outbound ones.
C2_Witness ==
  /\ lastCall.op = "finalize"
  /\ finalizeCount = 2
  /\ Len(inCtxs) = 3
  /\ Len(outCtxs) >= 2
  /\ \E c \in CtxIds : attachCalls[c] = 1
  /\ \E c \in CtxIds : attachCalls[c] = 2

\* C3 as stated: once finalize has been called, front is the first element of
\* inCtxs and back the last element of outCtxs (null when empty) in every
\* later state, also after further addFront/addBack calls.
C3_FrontBackAlways ==
  finalizeCount >= 1 =>
    /\ front = FirstOrNull(inCtxs)
    /\ back = LastOrNull(outCtxs)

\* C3 amended: in every state where finalize has been called and no
\* addFront/addBack call was made since the latest finalize, front is the first
\* element of inCtxs and back the last element of outCtxs (null when empty).
C3_FrontBackWhenFinalized ==
  (finalizeCount >= 1 /\ addedSinceFinalize = {}) =>
    /\ front = FirstOrNull(inCtxs)
    /\ back = LastOrNull(outCtxs)

\* A finalized chain with distinct entry contexts, observed after a later call.
C3_Witness ==
  /\ finalizeCount >= 1
  /\ addedSinceFinalize = {}
  /\ lastCall.op = "read"
  /\ Len(inCtxs) >= 2
  /\ Len(outCtxs) >= 2
  /\ front = inCtxs[1]
  /\ back = outCtxs[Len(outCtxs)]
  /\ front # back

\* C4: a finalize call invokes attachPipeline once on every context of ctxs,
\* back-most context first and front-most last, and every one of these calls
\* happens when front, back and all neighbour pointers already have the values
\* that finalize call gives them.
C4_AttachReverseAfterWiring ==
  lastCall.op = "finalize" =>
    /\ Len(lastAttach) = Len(ctxs)
    /\ \A i \in 1..Len(ctxs) :
         /\ lastAttach[i].ctx = ctxs[Len(ctxs) + 1 - i]
         /\ lastAttach[i].front = front
         /\ lastAttach[i].back = back
         /\ lastAttach[i].nextIn = nextIn
         /\ lastAttach[i].nextOut = nextOut

\* A re-finalize of a three-context chain that has both entry points.
C4_Witness ==
  /\ lastCall.op = "finalize"
  /\ finalizeCount = 2
  /\ Len(ctxs) = 3
  /\ Len(lastAttach) = 3
  /\ front # Null
  /\ back # Null

\* C5 as stated: whenever a read or write (or another inbound/outbound call)
\* of the pipeline is dispatched to handlers, attachPipeline has been called
\* exactly once on every context of the chain.
C5_AttachedOnceBeforeDispatch ==
  (lastCall.op \in DispatchOps /\ lastCall.delivered # <<>>) =>
    \A i \in 1..Len(ctxs) : attachCalls[ctxs[i]] = 1

\* C6 as stated: every context that receives detachPipeline at destruction has
\* received attachPipeline exactly once before.
C6_AttachedOnceBeforeDetach ==
  destroyed =>
    \A i \in 1..Len(detachLog) : attachCalls[detachLog[i]] = 1

\* C7: destroying a non-static pipeline invokes detachPipeline exactly once on
\* every context of ctxs other than the owner context, in ctxs order, and never
\* on the owner context; destroying a static pipeline invokes it on no context;
\* no detachPipeline call is made before destruction.
C7_DetachOnDestroy ==
  /\ ~destroyed => detachLog = <<>>
  /\ (destroyed /\ isStatic) => detachLog = <<>>
  /\ (destroyed /\ ~isStatic) =>
       /\ \A i \in 1..Len(ctxs) :
            Count(detachLog, ctxs[i]) = IF ctxs[i] = owner THEN 0 ELSE 1
       /\ \A i \in 1..Len(detachLog) : Count(ctxs, detachLog[i]) = 1
       /\ \A i, j \in 1..Len(detachLog) :
            i < j => PosIn(ctxs, detachLog[i]) < PosIn(ctxs, detachLog[j])

\* A destroyed non-static chain of three whose middle context is the owner.
C7_Witness ==
  /\ destroyed
  /\ ~isStatic
  /\ Len(ctxs) = 3
  /\ owner = ctxs[2]
  /\ Len(detachLog) = 2

\* C8 as stated: if setOwner(O) returned true, destroying the pipeline
\* delivers no detachPipeline to handler O through any context, while every
\* context of another handler receives detachPipeline (when the pipeline is
\* not static).
C8_OwnerHandlerNeverDetached ==
  (destroyed /\ ownerHandler # Null) =>
    /\ \A i \in 1..Len(detachLog) : handlerOf[detachLog[i]] # ownerHandler
    /\ ~isStatic =>
         \A i \in 1..Len(ctxs) :
           handlerOf[ctxs[i]] # ownerHandler => Count(detachLog, ctxs[i]) = 1

\* C9: when inCtxs is empty, every read, readEOF and readException call fails
\* with NoInboundHandler; when outCtxs is empty, every write and close call
\* fails with NoOutboundHandler; such a call reaches no handler and changes
\* nothing of the pipeline.
C9_NoHandlerCallsFail ==
  [][/\ (lastCall'.op \in InboundThrowingOps /\ inCtxs = <<>>) =>
          /\ lastCall'.result = "NoInboundHandler"
          /\ lastCall'.delivered = <<>>
          /\ UNCHANGED <<pipelineVars, historyVars>>
     /\ (lastCall'.op \in OutboundOps /\ outCtxs = <<>>) =>
          /\ lastCall'.result = "NoOutboundHandler"
          /\ lastCall'.delivered = <<>>
          /\ UNCHANGED <<pipelineVars, historyVars>>]_vars

\* A finalized pipeline that has only outbound handlers rejects a read.
C9_Witness ==
  /\ lastCall.op = "read"
  /\ lastCall.result = "NoInboundHandler"
  /\ inCtxs = <<>>
  /\ finalizeCount >= 1
  /\ back # Null

\* C10 as stated: transportActive and transportInactive return normally and
\* reach no handler when the pipeline has no inbound handler, and are
\* delivered to the front inbound context when it has one.
C10_TransportByInCtxs ==
  lastCall.op \in TransportOps =>
    /\ lastCall.result = "ok"
    /\ inCtxs = <<>> => lastCall.delivered = <<>>
    /\ inCtxs # <<>> =>
         (lastCall.delivered # <<>> /\ lastCall.delivered[1] = inCtxs[1])

\* C10 amended: transportActive and transportInactive always return normally
\* and leave the pipeline unchanged; when front is null (no inbound handler, or
\* inbound handlers added but not yet wired by finalize) they reach no handler;
\* when front is not null they are delivered to the context front points to.
C10_TransportByFront ==
  [][lastCall'.op \in TransportOps =>
       /\ lastCall'.result = "ok"
       /\ UNCHANGED <<pipelineVars, historyVars>>
       /\ front = Null => lastCall'.delivered = <<>>
       /\ front # Null =>
            (lastCall'.delivered # <<>> /\ lastCall'.delivered[1] = front)]_vars

\* transportActive delivered to front while a newer inbound context, added at
\* the front after finalize, is not yet wired in.
C10_Witness ==
  /\ lastCall.op = "transportActive"
  /\ front # Null
  /\ lastCall.delivered # <<>>
  /\ lastCall.delivered[1] = front
  /\ inCtxs[1] # front

InboundOps == InboundThrowingOps \cup TransportOps
NoRepeat(s) == \A i, j \in 1..Len(s) : i # j => s[i] # s[j]
FinalizedChain == finalizeCount >= 1 /\ addedSinceFinalize = {}

\* C14: a finalize call that directly follows another finalize call, with no
\* addFront/addBack in between, leaves front, back and every context's nextIn
\* and nextOut as the first call set them.
C14_FinalizeIdempotent ==
  [][(lastCall.op = "finalize" /\ lastCall'.op = "finalize") =>
       UNCHANGED <<front, back, nextIn, nextOut>>]_vars

\* A chain of three, wired in both directions, every context of which has been
\* through two finalize calls.
C14_Witness ==
  /\ lastCall.op = "finalize"
  /\ finalizeCount = 2
  /\ Len(ctxs) = 3
  /\ \A i \in 1..Len(ctxs) : attachCalls[ctxs[i]] = 2
  /\ Len(inCtxs) >= 2
  /\ Len(outCtxs) >= 2

\* C15: addFront and addBack change only ctxs, inCtxs and outCtxs (and create
\* the new context): front, back, the owner marker and every existing
\* context's nextIn/nextOut keep their values, the new context has null
\* neighbours, and no attachPipeline (or detachPipeline) call is made.
C15_AddFrame ==
  [][lastCall'.op \in {"addFront", "addBack"} =>
       /\ UNCHANGED <<front, back, owner, isStatic, destroyed>>
       /\ UNCHANGED <<attachCalls, lastAttach, detachLog>>
       /\ \A i \in 1..Len(ctxs) :
            /\ nextIn'[ctxs[i]] = nextIn[ctxs[i]]
            /\ nextOut'[ctxs[i]] = nextOut[ctxs[i]]
            /\ handlerOf'[ctxs[i]] = handlerOf[ctxs[i]]
       /\ \E c \in CtxIds :
            /\ c \notin Range(ctxs)
            /\ Range(ctxs') = Range(ctxs) \cup {c}
            /\ nextIn'[c] = Null
            /\ nextOut'[c] = Null]_vars

\* An inbound handler added at the front of a finalized, wired chain.
C15_Witness ==
  /\ lastCall.op = "addFront"
  /\ finalizeCount >= 1
  /\ front # Null
  /\ Len(inCtxs) >= 3
  /\ inCtxs[1] # front
  /\ nextIn[front] # Null
  /\ nextIn[inCtxs[1]] = Null

\* C16: setOwner(handler) returns true exactly when some context of ctxs wraps
\* that handler and then makes the first such context in ctxs order the owner;
\* when it returns false the owner marker keeps its value; in both cases ctxs,
\* inCtxs, outCtxs, front, back and all neighbour pointers are unchanged.
C16_SetOwner ==
  [][lastCall'.op = "setOwner" =>
       LET h == lastCall'.handler
           wraps == {i \in 1..Len(ctxs) : handlerOf[ctxs[i]] = h}
       IN /\ lastCall'.result = IF wraps # {} THEN "true" ELSE "false"
          /\ wraps # {} =>
               \E i \in wraps : /\ \A j \in wraps : i <= j
                                /\ owner' = ctxs[i]
          /\ wraps = {} => owner' = owner
          /\ UNCHANGED <<ctxs, inCtxs, outCtxs, front, back, nextIn, nextOut,
                         handlerOf>>]_vars

\* setOwner succeeded for a handler wrapped by two contexts: the owner is the
\* one nearer the front.
C16_Witness ==
  /\ lastCall.op = "setOwner"
  /\ lastCall.result = "true"
  /\ Len(ctxs) = 3
  /\ handlerOf[ctxs[2]] = lastCall.handler
  /\ handlerOf[ctxs[3]] = lastCall.handler
  /\ handlerOf[ctxs[1]] # lastCall.handler
  /\ owner = ctxs[2]

\* C17: in a finalized chain an inbound event visits the inbound contexts in
\* inCtxs order from the first one and stops at the one that absorbs it: the
\* contexts before it have all received the event, those after it have not.
C17_AbsorbStopsInbound ==
  (FinalizedChain /\ lastCall.op \in InboundOps /\ lastCall.delivered # <<>>) =>
    /\ Len(lastCall.delivered) <= Len(inCtxs)
    /\ lastCall.delivered = SubSeq(inCtxs, 1, Len(lastCall.delivered))

\* The middle one of three inbound handlers absorbs a read.
C17_Witness ==
  /\ FinalizedChain
  /\ lastCall.op = "read"
  /\ Len(inCtxs) = 3
  /\ lastCall.delivered = <<inCtxs[1], inCtxs[2]>>

\* C18: before the first finalize call front and back are null whatever was
\* added, so read, readEOF, readException, write and close fail with the
\* no-handler error and reach no handler, and transportActive and
\* transportInactive return without reaching one.
C18_NothingBeforeFinalize ==
  finalizeCount = 0 =>
    /\ front = Null
    /\ back = Null
    /\ lastCall.delivered = <<>>
    /\ lastCall.op \in InboundThrowingOps => lastCall.result = "NoInboundHandler"
    /\ lastCall.op \in OutboundOps => lastCall.result = "NoOutboundHandler"
    /\ lastCall.op \in TransportOps => lastCall.result = "ok"

\* A write on an assembled but never finalized chain that has handlers of both
\* directions.
C18_Witness ==
  /\ finalizeCount = 0
  /\ Len(inCtxs) >= 2
  /\ Len(outCtxs) >= 2
  /\ lastCall.op = "write"
  /\ lastCall.result = "NoOutboundHandler"

\* C19: every context an event is dispatched to has received attachPipeline
\* at least once, and a context added after the latest finalize is neither
\* front nor back nor the nextIn/nextOut neighbour of any context.
C19_DispatchOnlyToAttached ==
  /\ \A i \in 1..Len(lastCall.delivered) :
       attachCalls[lastCall.delivered[i]] >= 1
  /\ front \notin addedSinceFinalize
  /\ back \notin addedSinceFinalize
  /\ \A c \in CtxIds :
       /\ nextIn[c] \notin addedSinceFinalize
       /\ nextOut[c] \notin addedSinceFinalize

\* A write dispatched while a newer outbound context, added at the back after
\* finalize, is still unwired.
C19_Witness ==
  /\ lastCall.op = "write"
  /\ Len(lastCall.delivered) >= 2
  /\ finalizeCount >= 1
  /\ outCtxs[Len(outCtxs)] \in addedSinceFinalize
  /\ back # outCtxs[Len(outCtxs)]

\* C20: a non-null nextIn of a context of the pipeline points to a context at
\* a strictly later position of ctxs and a non-null nextOut to one at a
\* strictly earlier position; so the traversals from front along nextIn and
\* from back along nextOut visit no context twice and take at most len(ctxs)
\* steps.
C20_NeighboursAcyclic ==
  /\ \A c \in CtxIds :
       /\ nextIn[c] # Null =>
            /\ c \in Range(ctxs)
            /\ nextIn[c] \in Range(ctxs)
            /\ PosIn(ctxs, c) < PosIn(ctxs, nextIn[c])
       /\ nextOut[c] # Null =>
            /\ c \in Range(ctxs)
            /\ nextOut[c] \in Range(ctxs)
            /\ PosIn(ctxs, nextOut[c]) < PosIn(ctxs, c)
  /\ NoRepeat(InPath(front))
  /\ Len(InPath(front)) <= Len(ctxs)
  /\ NoRepeat(OutPath(back))
  /\ Len(OutPath(back)) <= Len(ctxs)

\* A chain of three contexts of direction BOTH, refinalized after an addFront,
\* with both traversals of full length.
C20_Witness ==
  /\ Len(ctxs) = 3
  /\ finalizeCount = 2
  /\ ctxs[1] \notin addedSinceFinalize
  /\ ctxs[1] # 1
  /\ Len(InPath(front)) = 3
  /\ Len(OutPath(back)) = 3

\* ---- message flow ----
Msg(ev) == <<ev.op, ev.msg>>
Sent(evs) == [k \in 1..Len(evs) |-> Msg(evs[k])]
\* what context c has received, in the order it received it
Received(evs, c) ==
  LET Reached(ev) == \E i \in 1..Len(ev.delivered) : ev.delivered[i] = c
      got == SelectSeq(evs, Reached)
  IN [k \in 1..Len(got) |-> Msg(got[k])]
\* every context an event reached passed it on to its neighbour, if it has one
AllForwardIn ==
  \A k \in 1..Len(inEvents) :
    inEvents[k].delivered # <<>> =>
      nextIn[inEvents[k].delivered[Len(inEvents[k].delivered)]] = Null
AllForwardOut ==
  \A k \in 1..Len(outEvents) :
    outEvents[k].delivered # <<>> =>
      nextOut[outEvents[k].delivered[Len(outEvents[k].delivered)]] = Null

\* C11: on a finalized chain, when every inbound handler forwards, every
\* inbound context, the last one included, receives exactly the messages
\* passed to read, in the order they were passed; each message visits the
\* inbound contexts in inCtxs order and no OUT-only context.
C11_InboundOrder ==
  (FinalizedChain /\ AllForwardIn) =>
    /\ \A i \in 1..Len(inCtxs) : Received(inEvents, inCtxs[i]) = Sent(inEvents)
    /\ \A k \in 1..Len(inEvents) : inEvents[k].delivered = inCtxs
    /\ \A i \in 1..Len(ctxs) :
         DirOf(ctxs[i]) = "OUT" => Received(inEvents, ctxs[i]) = <<>>

\* Two different messages read through [IN, OUT, BOTH], all forwarded.
C11_Witness ==
  /\ FinalizedChain
  /\ AllForwardIn
  /\ Len(ctxs) = 3
  /\ DirOf(ctxs[2]) = "OUT"
  /\ Len(inCtxs) = 2
  /\ Len(inEvents) = 2
  /\ inEvents[1].msg # inEvents[2].msg
  /\ Received(inEvents, inCtxs[2]) = <<<<"read", inEvents[1].msg>>,
                                       <<"read", inEvents[2].msg>>>>

\* C12: on a finalized chain the back outbound context receives the write and
\* close operations in the order they were submitted; when every outbound
\* handler forwards, so does every outbound context, the front-most one
\* included, each operation visiting the outbound contexts in reverse outCtxs
\* order and no IN-only context.
C12_OutboundOrder ==
  FinalizedChain =>
    /\ outCtxs # <<>> =>
         Received(outEvents, outCtxs[Len(outCtxs)]) = Sent(outEvents)
    /\ AllForwardOut =>
         /\ \A i \in 1..Len(outCtxs) :
              Received(outEvents, outCtxs[i]) = Sent(outEvents)
         /\ \A k \in 1..Len(outEvents) :
              /\ Len(outEvents[k].delivered) = Len(outCtxs)
              /\ \A i \in 1..Len(outCtxs) :
                   outEvents[k].delivered[i] = outCtxs[Len(outCtxs) + 1 - i]
    /\ \A i \in 1..Len(ctxs) :
         DirOf(ctxs[i]) = "IN" => Received(outEvents, ctxs[i]) = <<>>

\* A write followed by a close through [BOTH, IN, OUT], both forwarded.
C12_Witness ==
  /\ FinalizedChain
  /\ AllForwardOut
  /\ Len(ctxs) = 3
  /\ DirOf(ctxs[2]) = "IN"
  /\ Len(outCtxs) = 2
  /\ Len(outEvents) = 2
  /\ outEvents[1].op = "write"
  /\ outEvents[2].op = "close"
  /\ Received(outEvents, outCtxs[1]) = <<<<"write", outEvents[1].msg>>,
                                         <<"close", Null>>>>

====
